---- MODULE Spec2Model ----
(***************************************************************************)
(* Model of the AI Fit Tool (src/app.py): a Streamlit script that reads    *)
(* ten sliders, draws the task and three reference profiles on a radar     *)
(* chart and ranks the profiles by a normalised fit percentage.            *)
(*                                                                         *)
(* Numbers.  map_to_scale and fit_score compute in Python floats.  The     *)
(* model computes the same quantities exactly: a score is the rational     *)
(* num/den (a record, den > 0), compared by cross-multiplication, and      *)
(* round() is round-half-to-even on the exact quotient.                    *)
(***************************************************************************)
EXTENDS Integers, Sequences, FiniteSets, TLC

VARIABLES sliders, current_task, PROFILES, fig, scores, ranked, best,
          pc, call, ret, prev, moved

vars == <<sliders, current_task, PROFILES, fig, scores, ranked, best,
          pc, call, ret, prev, moved>>

appVars == <<sliders, current_task, PROFILES, fig, scores, ranked, best>>
callVars == <<pc, call, ret, prev, moved>>

----------------------------------------------------------------------------
(* Bounds of the model *)

\* every slider is moved between the two ends of the scale and the default;
\* the first slider is also moved to the values within FineReach steps of
\* the default
FineReach == 1

\* components 1..MaxFree of a fit_score input vector range over the scale
MaxFree == 2

\* map_to_scale is called with value, src_min, src_max in 0..MaxSrc
MaxSrc == 12

----------------------------------------------------------------------------
(* Dimensions and scale *)

DIMENSIONS == << "Repeatability", "Variation", "Complexity", "Pace",
                 "Scalability", "Data Structure", "Adaptability", "Impact",
                 "Explainability", "Cost" >>

SCALE_MIN == 1
SCALE_MAX == 10
SCALE_STEP == 1

\* default arguments of map_to_scale
SRC_MIN_DEFAULT == 1
SRC_MAX_DEFAULT == 10

\* defaults = [5] * len(DIMENSIONS)
DEFAULT_VALUE == 5

NDims == Len(DIMENSIONS)

Abs(x) == IF x < 0 THEN -x ELSE x

MinOf(a, b) == IF a < b THEN a ELSE b

----------------------------------------------------------------------------
(* Exact rationals standing for the floats of the source *)

Rat(n, d) == [num |-> n, den |-> d]

RatLE(a, b) == a.num * b.den <= b.num * a.den

RatEq(a, b) == a.num * b.den = b.num * a.den

RatLT(a, b) == a.num * b.den < b.num * a.den

\* Python round(): nearest integer, ties to the even one, of n/d with d > 0
RoundHalfEven(n, d) ==
    LET q == n \div d
        r == n % d
    IN  IF 2 * r < d THEN q
        ELSE IF 2 * r > d THEN q + 1
        ELSE IF q % 2 = 0 THEN q ELSE q + 1

----------------------------------------------------------------------------
(* Scale Mapper *)

\* map_to_scale with dst_span = SCALE_MAX instead of SCALE_MAX - SCALE_MIN
map_to_scale_wide_span(value, src_min, src_max) ==
    IF value < src_min \/ value > src_max
    THEN [kind |-> "ValueError"]
    ELSE IF src_max - src_min = 0
    THEN [kind |-> "ZeroDivisionError"]
    ELSE [kind |-> "ok",
          value |-> RoundHalfEven(SCALE_MIN * (src_max - src_min)
                                    + (value - src_min) * SCALE_MAX,
                                  src_max - src_min)]

\* map_to_scale with the SCALE_MIN offset forgotten
map_to_scale_no_offset(value, src_min, src_max) ==
    IF value < src_min \/ value > src_max
    THEN [kind |-> "ValueError"]
    ELSE IF src_max - src_min = 0
    THEN [kind |-> "ZeroDivisionError"]
    ELSE [kind |-> "ok",
          value |-> RoundHalfEven((value - src_min) * (SCALE_MAX - SCALE_MIN),
                                  src_max - src_min)]

\* scaled = SCALE_MIN + ((value - src_min) / src_span) * dst_span, rounded;
\* the result is the returned integer or the exception raised
map_to_scale(value, src_min, src_max) ==
    IF value < src_min \/ value > src_max
    THEN [kind |-> "ValueError"]
    ELSE LET src_span == src_max - src_min
             dst_span == SCALE_MAX - SCALE_MIN
         IN  IF src_span = 0
             THEN [kind |-> "ZeroDivisionError"]
             ELSE [kind |-> "ok",
                   value |-> RoundHalfEven(SCALE_MIN * src_span
                                             + (value - src_min) * dst_span,
                                           src_span)]

----------------------------------------------------------------------------
(* Profile Registry *)

RAW_PROFILES ==
    << << "Human",  << 9, 4, 3, 2, 1, 5, 8, 7, 7, 1 >> >>,
       << "System", << 1, 1, 3, 8, 9, 1, 1, 4, 9, 9 >> >>,
       << "AI",     << 6, 8, 4, 4, 5, 6, 5, 3, 2, 6 >> >> >>

\* [map_to_scale(v) for v in raw]
MapAll(raw) ==
    [i \in 1..Len(raw) |->
        map_to_scale(raw[i], SRC_MIN_DEFAULT, SRC_MAX_DEFAULT).value]

\* the dict PROFILES as built at import, in insertion order
PROFILES_AT_IMPORT ==
    [k \in 1..Len(RAW_PROFILES) |->
        << RAW_PROFILES[k][1], MapAll(RAW_PROFILES[k][2]) >>]

\* the width of the scale, not multiplied by the number of dimensions
MAX_TOTAL_DIFF_one_dim == SCALE_MAX - SCALE_MIN

MAX_TOTAL_DIFF == (SCALE_MAX - SCALE_MIN) * Len(DIMENSIONS)

----------------------------------------------------------------------------
(* Fit Scorer *)

RECURSIVE SumAbsDiff(_, _, _)
SumAbsDiff(task, profile, n) ==
    IF n = 0 THEN 0
    ELSE SumAbsDiff(task, profile, n - 1) + Abs(task[n] - profile[n])

\* sum(abs(t - p) for t, p in zip(task, profile)): zip stops at the shorter
total_diff(task, profile) ==
    SumAbsDiff(task, profile, MinOf(Len(task), Len(profile)))

\* the percentage of difference instead of the percentage of fit:
\* (total_diff / MAX_TOTAL_DIFF) * 100.0
unclamped_score_of_distance(task, profile) ==
    Rat(100 * total_diff(task, profile), MAX_TOTAL_DIFF)

\* 100.0 - (total_diff / MAX_TOTAL_DIFF) * 100.0, before the clamp
unclamped_score(task, profile) ==
    Rat(100 * MAX_TOTAL_DIFF - 100 * total_diff(task, profile), MAX_TOTAL_DIFF)

\* fit_score with the abs() forgotten: signed differences cancel
RECURSIVE SumDiff(_, _, _)
SumDiff(task, profile, n) ==
    IF n = 0 THEN 0
    ELSE SumDiff(task, profile, n - 1) + (task[n] - profile[n])

\* max(0.0, score)
ClampAtZero(score) == IF score.num < 0 THEN Rat(0, score.den) ELSE score

fit_score_no_abs(task, profile) ==
    ClampAtZero(Rat(100 * MAX_TOTAL_DIFF
                      - 100 * SumDiff(task, profile, MinOf(Len(task), Len(profile))),
                    MAX_TOTAL_DIFF))

fit_score(task, profile) ==
    IF MAX_TOTAL_DIFF = 0
    THEN Rat(100, 1)
    ELSE ClampAtZero(unclamped_score(task, profile))

----------------------------------------------------------------------------
(* Radar Geometry *)

\* Python a + b on lists: a new list; the operand a is left as it was.
\* The record holds the new list and the left operand after the operation.
ListExtend(a, b) == [result |-> a \o b, left |-> a \o b]

ListAdd(a, b) == [result |-> a \o b, left |-> a]

\* values[:1]
FirstSlice(values) == SubSeq(values, 1, MinOf(1, Len(values)))

\* the polygon left open: r = values
ClosedValues_open(values) == [result |-> values, left |-> values]

\* vals = values + values[:1]
ClosedValues(values) == ListAdd(values, FirstSlice(values))

\* categories = DIMENSIONS + [DIMENSIONS[0]]
categories == ListAdd(DIMENSIONS, << DIMENSIONS[1] >>).result

Trace(name, r) == [name |-> name, r |-> r, theta |-> categories]

\* go.Scatterpolar(r=vals, theta=categories, name=name) for one vector, with
\* the vector as the call leaves it; closed is ClosedValues(values)
ClosedTrace(name, closed) ==
    [trace |-> Trace(name, closed.result), values |-> closed.left]

\* the loop over PROFILES.items(), then the task's trace
Traces(task_values, profiles) ==
    [k \in 1..Len(profiles) + 1 |->
        IF k <= Len(profiles)
        THEN ClosedTrace(profiles[k][1], ClosedValues(profiles[k][2]))
        ELSE ClosedTrace("Your Task", ClosedValues(task_values))]

\* fig: the traces in the order they are added; profiles, task_values: the
\* dict and the list read, as they are when the function returns
RadarResult(traces, profiles) ==
    [fig |-> [k \in 1..Len(traces) |-> traces[k].trace],
     profiles |-> [k \in 1..Len(profiles) |-> << profiles[k][1], traces[k].values >>],
     task_values |-> traces[Len(traces)].values]

\* build_radar_figure(task_values), reading the global PROFILES (profiles)
build_radar_figure(task_values, profiles) ==
    RadarResult(Traces(task_values, profiles), profiles)

----------------------------------------------------------------------------
(* Ranking Presenter *)

\* {n: fit_score(current_task, v) for n, v in PROFILES.items()}
Scores(task, profiles) ==
    [k \in 1..Len(profiles) |->
        << profiles[k][1], fit_score(task, profiles[k][2]) >>]

\* position at which item goes into the descending sequence s: after every
\* element whose score is not smaller (equal scores keep their order)
RECURSIVE InsertPos(_, _, _)
InsertPos(s, item, i) ==
    IF i > Len(s) THEN i
    ELSE IF RatLT(s[i][2], item[2]) THEN i
    ELSE InsertPos(s, item, i + 1)

InsertDesc(s, item) ==
    LET p == InsertPos(s, item, 1)
    IN  SubSeq(s, 1, p - 1) \o << item >> \o SubSeq(s, p, Len(s))

RECURSIVE SortedPrefix(_, _)
SortedPrefix(items, n) ==
    IF n = 0 THEN << >>
    ELSE InsertDesc(SortedPrefix(items, n - 1), items[n])

Reverse(s) == [i \in 1..Len(s) |-> s[Len(s) + 1 - i]]

\* sorted(items, key=...)[::-1]: descending, but equal scores come out in
\* reverse insertion order
sorted_desc_by_reversal(items) ==
    SortedPrefix(Reverse(items), Len(items))

\* sorted(items, key=lambda x: x[1], reverse=True): stable, descending
sorted_desc(items) == SortedPrefix(items, Len(items))

----------------------------------------------------------------------------
(* The application: one run of the script per user interaction *)

\* slider_values: the sliders' values in DIMENSIONS order
SliderValues(sl) == [i \in 1..Len(DIMENSIONS) |-> sl[i]]

\* st.slider(min_value=SCALE_MIN, max_value=SCALE_MAX, step=SCALE_STEP):
\* the values the widget can return
SliderRange == { v \in SCALE_MIN..SCALE_MAX : (v - SCALE_MIN) % SCALE_STEP = 0 }

\* the values the user moves slider i to
SliderInputs(i) ==
    { SCALE_MIN, DEFAULT_VALUE, SCALE_MAX }
      \cup IF i = 1
           THEN { v \in SliderRange : Abs(v - DEFAULT_VALUE) <= FineReach * SCALE_STEP }
           ELSE { }

\* the script from the sliders to its last line, as the next state:
\* slider_values, build_radar_figure(current_task), scores, ranked, best fit
Run(sl, profiles) ==
    /\ sliders' = sl
    /\ \E radar \in { build_radar_figure(SliderValues(sl), profiles) } :
           /\ fig' = radar.fig
           /\ PROFILES' = radar.profiles
           /\ current_task' = radar.task_values
    /\ scores' = Scores(current_task', PROFILES')
    /\ ranked' = sorted_desc(scores')
    /\ best' = ranked'[1]

\* the state the first run of the script leaves, every slider at its default
FirstRun ==
    /\ sliders = [i \in 1..Len(DIMENSIONS) |-> DEFAULT_VALUE]
    /\ \E radar \in { build_radar_figure(SliderValues(sliders), PROFILES_AT_IMPORT) } :
           /\ fig = radar.fig
           /\ PROFILES = radar.profiles
           /\ current_task = radar.task_values
    /\ scores = Scores(current_task, PROFILES)
    /\ ranked = sorted_desc(scores)
    /\ best = ranked[1]

NoCall == [fn |-> "none"]
NoRet == [kind |-> "none"]
NoMove == [n |-> 0]

Idle ==
    /\ pc = "app"
    /\ call = NoCall
    /\ ret = NoRet
    /\ prev = NoRet
    /\ moved = NoMove

Init == FirstRun /\ Idle

\* the user moves slider i to v; Streamlit reruns the script
SliderChange(i, v) ==
    /\ v # sliders[i]
    /\ Run([sliders EXCEPT ![i] = v], PROFILES)
    /\ UNCHANGED callVars

Next == \E i \in 1..Len(DIMENSIONS) : \E v \in SliderInputs(i) : SliderChange(i, v)

Spec == Init /\ [][Next]_vars

----------------------------------------------------------------------------
(* fit_score as a function: called on bounded inputs, then on the same     *)
(* task with one component moved by one slider step                        *)

Fill(c, l) == [i \in 1..l |-> c]

\* v cut or padded (with its last value) to length l
Resize(v, l) == [i \in 1..l |-> IF i <= Len(v) THEN v[i] ELSE v[Len(v)]]

Bases ==
    { PROFILES_AT_IMPORT[k][2] : k \in 1..Len(PROFILES_AT_IMPORT) }
      \cup { Fill(c, NDims) : c \in { SCALE_MIN, DEFAULT_VALUE, SCALE_MAX } }

OtherLens == { NDims - 1, NDims + 1 }

\* b with its components 1..MaxFree replaced by free values of the scale
RECURSIVE Vary(_, _)
Vary(vs, n) ==
    IF n = 0 THEN vs
    ELSE Vary({ [v EXCEPT ![n] = x] : v \in vs, x \in SCALE_MIN..SCALE_MAX },
              n - 1)

MisShapen == { Resize(b, l) : b \in Bases, l \in OtherLens }

TaskInputs == Vary(Bases, MinOf(MaxFree, NDims)) \cup MisShapen

ProfileInputs == Bases \cup MisShapen

IsVector(v) ==
    /\ Len(v) = NDims
    /\ \A i \in 1..Len(v) : v[i] \in SCALE_MIN..SCALE_MAX

InitFit ==
    /\ FirstRun
    /\ pc = "call"
    /\ \E t \in TaskInputs : \E p \in ProfileInputs :
           call = [fn |-> "fit_score", task |-> t, profile |-> p]
    /\ ret = NoRet
    /\ prev = NoRet
    /\ moved = NoMove

FitReturn ==
    /\ pc = "call"
    /\ call.fn = "fit_score"
    /\ ret' = [kind |-> "ok", value |-> fit_score(call.task, call.profile)]
    /\ pc' = "done"
    /\ UNCHANGED <<call, prev, moved>>
    /\ UNCHANGED appVars

\* component n of a valid task moves one slider step up (d = 1) or down
\* (d = -1) and the task is scored again against the same profile
FitStep(n, d) ==
    /\ pc = "done"
    /\ call.fn = "fit_score"
    /\ IsVector(call.task) /\ IsVector(call.profile)
    /\ call.task[n] + d * SCALE_STEP \in SCALE_MIN..SCALE_MAX
    /\ call' = [call EXCEPT !.task[n] = @ + d * SCALE_STEP]
    /\ moved' = [n |-> n, from |-> call.task[n], to |-> call.task[n] + d * SCALE_STEP]
    /\ prev' = ret
    /\ ret' = [kind |-> "ok", value |-> fit_score(call'.task, call'.profile)]
    /\ pc' = "stepped"
    /\ UNCHANGED appVars

NextFit ==
    \/ FitReturn
    \/ \E n \in 1..NDims : \E d \in { -1, 1 } : FitStep(n, d)

SpecFit == InitFit /\ [][NextFit]_vars

----------------------------------------------------------------------------
(* map_to_scale as a function, called on bounded inputs *)

InitMap ==
    /\ FirstRun
    /\ pc = "call"
    /\ \E v \in 0..MaxSrc : \E lo \in 0..MaxSrc : \E hi \in 0..MaxSrc :
           call = [fn |-> "map_to_scale", value |-> v, src_min |-> lo, src_max |-> hi]
    /\ ret = NoRet
    /\ prev = NoRet
    /\ moved = NoMove

MapReturn ==
    /\ pc = "call"
    /\ call.fn = "map_to_scale"
    /\ ret' = map_to_scale(call.value, call.src_min, call.src_max)
    /\ pc' = "done"
    /\ UNCHANGED <<call, prev, moved>>
    /\ UNCHANGED appVars

NextMap == MapReturn

SpecMap == InitMap /\ [][NextMap]_vars

----------------------------------------------------------------------------
(* Properties *)

Returned == pc \in { "done", "stepped" }

MismatchedShapes ==
    \/ Len(call.task) # Len(call.profile)
    \/ Len(call.task) # Len(DIMENSIONS)
    \/ Len(call.profile) # Len(DIMENSIONS)

\* C1: fit_score called with vectors of different lengths, or of a length
\* other than the number of dimensions, fails with a ShapeError and returns
\* no score.
C1_ShapeError ==
    (Returned /\ call.fn = "fit_score" /\ MismatchedShapes)
        => ret.kind = "ShapeError"

\* C2: map_to_scale called with src_min = src_max fails, for every value,
\* with the error kind of an out-of-range value (ValueError), never with a
\* division by zero.
C2_DegenerateRangeError ==
    (Returned /\ call.fn = "map_to_scale" /\ call.src_min = call.src_max)
        => ret.kind = "ValueError"

\* C3: for src_min < src_max and src_min <= value <= src_max, map_to_scale
\* returns an integer in [SCALE_MIN, SCALE_MAX], src_min maps to SCALE_MIN
\* and src_max to SCALE_MAX.
C3_MapInScale ==
    (/\ Returned
     /\ call.fn = "map_to_scale"
     /\ call.src_min < call.src_max
     /\ call.src_min <= call.value
     /\ call.value <= call.src_max)
        => /\ ret.kind = "ok"
           /\ ret.value \in SCALE_MIN..SCALE_MAX
           /\ (call.value = call.src_min => ret.value = SCALE_MIN)
           /\ (call.value = call.src_max => ret.value = SCALE_MAX)

\* a value strictly inside a source range was mapped strictly inside the scale
C3_Witness ==
    /\ pc = "done"
    /\ call.fn = "map_to_scale"
    /\ call.src_min < call.value
    /\ call.value < call.src_max
    /\ ret.kind = "ok"
    /\ SCALE_MIN < ret.value
    /\ ret.value < SCALE_MAX

\* C4: for task and profile vectors of 10 integers in [1, 10], fit_score is
\* 100.0 if and only if task = profile.
C4_PerfectIffEqual ==
    (/\ Returned
     /\ call.fn = "fit_score"
     /\ IsVector(call.task)
     /\ IsVector(call.profile))
        => /\ ret.kind = "ok"
           /\ RatEq(ret.value, Rat(100, 1)) <=> (call.task = call.profile)

\* a task that a slider step has made equal to the profile scores 100
C4_Witness ==
    /\ pc = "stepped"
    /\ IsVector(call.task)
    /\ call.task = call.profile
    /\ RatEq(ret.value, Rat(100, 1))
    /\ ~RatEq(prev.value, Rat(100, 1))

\* C5: with every slider at its default 5, Human is [9,4,3,2,1,5,8,7,7,1],
\* the total difference against Human is 25, MAX_TOTAL_DIFF is 9*10 = 90 and
\* the Human score is 100 - 25/90*100, about 72.2.
C5_InitialHumanScore ==
    (\A i \in 1..Len(DIMENSIONS) : sliders[i] = DEFAULT_VALUE)
        => /\ PROFILES[1] = << "Human", << 9, 4, 3, 2, 1, 5, 8, 7, 7, 1 >> >>
           /\ total_diff(current_task, PROFILES[1][2]) = 25
           /\ MAX_TOTAL_DIFF = 9 * 10
           /\ MAX_TOTAL_DIFF = 90
           /\ scores[1][1] = "Human"
           /\ RatEq(scores[1][2], Rat(100 * 90 - 25 * 100, 90))
           /\ RatLT(Rat(722, 10), scores[1][2])
           /\ RatLT(scores[1][2], Rat(723, 10))

\* the script has run with every slider at its default and scored Human
C5_Witness ==
    /\ \A i \in 1..Len(DIMENSIONS) : sliders[i] = DEFAULT_VALUE
    /\ current_task = Fill(DEFAULT_VALUE, NDims)
    /\ scores[1][1] = "Human"
    /\ RatLT(Rat(72, 1), scores[1][2])

StepIsFarther ==
    Abs(moved.to - call.profile[moved.n]) > Abs(moved.from - call.profile[moved.n])

\* C6: moving one task component one slider step farther from the profile's
\* component never increases fit_score.
C6_FartherNeverBetter ==
    (pc = "stepped" /\ StepIsFarther) => RatLE(ret.value, prev.value)

\* a step away from the profile lowered the score
C6_Witness ==
    /\ pc = "stepped"
    /\ StepIsFarther
    /\ RatLT(ret.value, prev.value)

ProfileIndex(name) == CHOOSE k \in 1..Len(PROFILES) : PROFILES[k][1] = name

\* C7: ranked is a permutation of the profiles' scores in non-increasing
\* order, equal scores in insertion order (Human, System, AI), and the best
\* fit is its first element.
C7_RankedStableDescending ==
    /\ Len(scores) = Len(PROFILES)
    /\ \A k \in 1..Len(PROFILES) :
           scores[k] = << PROFILES[k][1], fit_score(current_task, PROFILES[k][2]) >>
    /\ << PROFILES[1][1], PROFILES[2][1], PROFILES[3][1] >> = << "Human", "System", "AI" >>
    /\ Len(ranked) = Len(scores)
    /\ { ranked[i] : i \in 1..Len(ranked) } = { scores[k] : k \in 1..Len(scores) }
    /\ \A i \in 1..Len(ranked) : \A j \in 1..Len(ranked) :
           i < j => /\ RatLE(ranked[j][2], ranked[i][2])
                    /\ RatEq(ranked[j][2], ranked[i][2])
                          => ProfileIndex(ranked[i][1]) < ProfileIndex(ranked[j][1])
    /\ best = ranked[1]

\* after a slider change two profiles tie for the best score
C7_Witness ==
    /\ \E i \in 1..Len(DIMENSIONS) : sliders[i] # DEFAULT_VALUE
    /\ RatEq(ranked[1][2], ranked[2][2])
    /\ RatLT(ranked[3][2], ranked[2][2])

TraceVector(k) == IF k <= Len(PROFILES) THEN PROFILES[k][2] ELSE current_task

\* C8: every polygon on the chart (each profile, then the task) has N + 1
\* points, point i carries the value and axis of dimension i, and the last
\* point equals the first in axis and radius.
C8_PolygonClosed ==
    /\ Len(fig) = Len(PROFILES) + 1
    /\ fig[Len(fig)].name = "Your Task"
    /\ \A k \in 1..Len(fig) :
           /\ k <= Len(PROFILES) => fig[k].name = PROFILES[k][1]
           /\ Len(fig[k].r) = Len(DIMENSIONS) + 1
           /\ Len(fig[k].theta) = Len(DIMENSIONS) + 1
           /\ \A i \in 1..Len(DIMENSIONS) :
                  /\ fig[k].theta[i] = DIMENSIONS[i]
                  /\ fig[k].r[i] = TraceVector(k)[i]
           /\ fig[k].r[Len(DIMENSIONS) + 1] = fig[k].r[1]
           /\ fig[k].theta[Len(DIMENSIONS) + 1] = fig[k].theta[1]

\* the task polygon was redrawn and closed on a moved first slider
C8_Witness ==
    /\ sliders[1] # DEFAULT_VALUE
    /\ Len(fig[Len(fig)].r) = Len(DIMENSIONS) + 1
    /\ fig[Len(fig)].r[Len(DIMENSIONS) + 1] = sliders[1]

\* C9: in every reachable state the total difference against each profile is
\* at most MAX_TOTAL_DIFF, the unclamped score lies in [0, 100] and the
\* clamp leaves it as it is.
C9_ClampNeverActs ==
    \A k \in 1..Len(PROFILES) :
        /\ total_diff(current_task, PROFILES[k][2]) <= MAX_TOTAL_DIFF
        /\ MAX_TOTAL_DIFF = 90
        /\ RatLE(Rat(0, 1), unclamped_score(current_task, PROFILES[k][2]))
        /\ RatLE(unclamped_score(current_task, PROFILES[k][2]), Rat(100, 1))
        /\ scores[k][2] = unclamped_score(current_task, PROFILES[k][2])

\* every slider stands at the end of the scale farthest from System
C9_Witness ==
    /\ \A i \in 1..Len(DIMENSIONS) : sliders[i] \in { SCALE_MIN, SCALE_MAX }
    /\ total_diff(current_task, PROFILES[2][2]) = 80
    /\ scores[2][2] = unclamped_score(current_task, PROFILES[2][2])

\* C10: a recomputation leaves the three profile vectors as built at import
\* and the task equal to the sliders' values, nothing appended or reordered.
C10_InputsUntouched ==
    /\ PROFILES = PROFILES_AT_IMPORT
    /\ current_task = SliderValues(sliders)
    /\ Len(current_task) = Len(DIMENSIONS)

\* two sliders have been moved and the chart and scores recomputed
C10_Witness ==
    /\ sliders[1] = SCALE_MAX
    /\ sliders[Len(DIMENSIONS)] = SCALE_MIN
    /\ fig[Len(fig)].r[1] = SCALE_MAX
    /\ PROFILES = PROFILES_AT_IMPORT

====
